---- MODULE Spec2Model ----
(***************************************************************************)
(* KDL QR Tool (kdl_qr_tool_V200.py): a Tk window with a case-number entry *)
(* (Fallnummer), a read-only dropdown of KDL displays ordered favourites   *)
(* first, a QR generator and a label printer.                              *)
(*                                                                         *)
(* Python strings are modelled as sequences of Unicode code points, so     *)
(* that sorted(), str.strip() and the f-string of the payload are computed *)
(* character by character as Python computes them.                         *)
(***************************************************************************)
EXTENDS Integers, Sequences, FiniteSets, TLC

VARIABLES pc,               \* "start" (module loaded, window not built), "running", "crashed"
          KDL_DATA,         \* the catalog: a sequence of [code, display]
          USAGE_FILE,       \* content of kdl_usage.json on disk
          usage_data,       \* the global usage_data
          fallnummer_entry, \* text of the Fallnummer entry widget
          kdl_var,          \* text of the combobox (the selection)
          kdl_dropdown,     \* kdl_dropdown["values"]
          qr_pil,           \* self.qr_pil: the QR image, held as the data it encodes
          event,            \* outcome of the handler run by the last step
          messagebox,       \* message box that handler showed (umlauts as ae, ue), "" if none
          page,             \* the page that handler submitted to the printer
          generated,        \* number of successful generate_qr calls so far
          run               \* the current run of successful generate_qr calls for one code

vars == <<pc, KDL_DATA, USAGE_FILE, usage_data, fallnummer_entry, kdl_var,
          kdl_dropdown, qr_pil, event, messagebox, page, generated, run>>

\* --------------------------------------------------------------- bounds

\* Successful generate_qr calls per behaviour (the usage counters are unbounded).
MaxGenerated == 2

\* ------------------------------------------------------ Python strings

Min(S) == CHOOSE x \in S : \A y \in S : x <= y
Max(S) == CHOOSE x \in S : \A y \in S : x >= y

\* a < b for two str: the first differing code point decides, a proper prefix is smaller.
StrLess(a, b) ==
    \E i \in 1..(Len(a) + 1) :
        /\ i <= Len(b)
        /\ \A j \in 1..(i - 1) : a[j] = b[j]
        /\ (i = Len(a) + 1 \/ a[i] < b[i])

\* The code points str.isspace() accepts below U+0100.
WHITESPACE == {9, 10, 11, 12, 13, 28, 29, 30, 31, 32, 133, 160}

\* str.strip(): leading and trailing whitespace removed.
strip(s) ==
    LET keep == {i \in 1..Len(s) : s[i] \notin WHITESPACE}
    IN  IF keep = {} THEN <<>> ELSE SubSeq(s, Min(keep), Max(keep))

\* The separator entry "---" of the dropdown.
SEPARATOR == <<45, 45, 45>>

\* list membership: x in lst
InList(x, lst) == \E i \in 1..Len(lst) : lst[i] = x

\* lst[:n]
Take(lst, n) == SubSeq(lst, 1, IF Len(lst) < n THEN Len(lst) ELSE n)

\* ------------------------------------------------------- JSON values

\* A JSON value as json.load returns it: an int, a str, a list or a dict
\* (m: the dict's keys to their values).
JInt(k) == [t |-> "int", n |-> k, m |-> <<>>]
JStr == [t |-> "str", n |-> 0, m |-> <<>>]
JList == [t |-> "list", n |-> 0, m |-> <<>>]
JDict(f) == [t |-> "dict", n |-> 0, m |-> f]

\* dict.get(key, 0)
DictGet(d, key) == IF key \in DOMAIN d.m THEN d.m[key] ELSE JInt(0)

\* d[key] = value
DictSet(d, key, value) ==
    JDict([k \in DOMAIN d.m \cup {key} |-> IF k = key THEN value ELSE d.m[k]])

\* ---------------------------------------------------------- catalogs

FALLBACK_KDL_DATA ==
    <<
       \* A01: Cholera durch Vibrio cholerae 01, Biovar cholerae
       [code |-> <<65, 48, 49>>,
        display |-> <<67, 104, 111, 108, 101, 114, 97, 32, 100, 117, 114, 99, 104, 32,
            86, 105, 98, 114, 105, 111, 32, 99, 104, 111, 108, 101, 114, 97,
            101, 32, 48, 49, 44, 32, 66, 105, 111, 118, 97, 114, 32, 99, 104,
            111, 108, 101, 114, 97, 101>>],
       \* A02: Salmonellenenteritis
       [code |-> <<65, 48, 50>>,
        display |-> <<83, 97, 108, 109, 111, 110, 101, 108, 108, 101, 110, 101, 110,
            116, 101, 114, 105, 116, 105, 115>>],
       \* B20: HIV-Krankheit, durch HIV-1-Virus
       [code |-> <<66, 50, 48>>,
        display |-> <<72, 73, 86, 45, 75, 114, 97, 110, 107, 104, 101, 105, 116, 44, 32,
            100, 117, 114, 99, 104, 32, 72, 73, 86, 45, 49, 45, 86, 105, 114,
            117, 115>>],
       \* C34: Bösartige Neubildung: Bronchien und Lunge
       [code |-> <<67, 51, 52>>,
        display |-> <<66, 246, 115, 97, 114, 116, 105, 103, 101, 32, 78, 101, 117, 98,
            105, 108, 100, 117, 110, 103, 58, 32, 66, 114, 111, 110, 99, 104,
            105, 101, 110, 32, 117, 110, 100, 32, 76, 117, 110, 103, 101>>],
       \* E11: Nicht insulinabhängiger Diabetes mellitus
       [code |-> <<69, 49, 49>>,
        display |-> <<78, 105, 99, 104, 116, 32, 105, 110, 115, 117, 108, 105, 110, 97,
            98, 104, 228, 110, 103, 105, 103, 101, 114, 32, 68, 105, 97, 98,
            101, 116, 101, 115, 32, 109, 101, 108, 108, 105, 116, 117, 115>>],
       \* I10: Essentielle (primäre) Hypertonie
       [code |-> <<73, 49, 48>>,
        display |-> <<69, 115, 115, 101, 110, 116, 105, 101, 108, 108, 101, 32, 40, 112,
            114, 105, 109, 228, 114, 101, 41, 32, 72, 121, 112, 101, 114, 116,
            111, 110, 105, 101>>],
       \* J45: Asthma bronchiale
       [code |-> <<74, 52, 53>>,
        display |-> <<65, 115, 116, 104, 109, 97, 32, 98, 114, 111, 110, 99, 104, 105,
            97, 108, 101>>],
       \* K35: Akute Appendizitis
       [code |-> <<75, 51, 53>>,
        display |-> <<65, 107, 117, 116, 101, 32, 65, 112, 112, 101, 110, 100, 105, 122,
            105, 116, 105, 115>>],
       \* M54: Rückenschmerzen
       [code |-> <<77, 53, 52>>,
        display |-> <<82, 252, 99, 107, 101, 110, 115, 99, 104, 109, 101, 114, 122, 101,
            110>>],
       \* N39: Sonstige Krankheiten der Harnorgane
       [code |-> <<78, 51, 57>>,
        display |-> <<83, 111, 110, 115, 116, 105, 103, 101, 32, 75, 114, 97, 110, 107,
            104, 101, 105, 116, 101, 110, 32, 100, 101, 114, 32, 72, 97, 114,
            110, 111, 114, 103, 97, 110, 101>>]
    >>

\* The codes of the fallback catalog, as keys of usage files.
A01 == FALLBACK_KDL_DATA[1].code
A02 == FALLBACK_KDL_DATA[2].code
B20 == FALLBACK_KDL_DATA[3].code
C34 == FALLBACK_KDL_DATA[4].code
E11 == FALLBACK_KDL_DATA[5].code
I10 == FALLBACK_KDL_DATA[6].code

\* A kdl_embedded.json that load_kdl_data accepts: a list of objects with "code" and
\* "display". Not in code order; two entries share the display "x"; the display
\* "y " ends in a blank and no entry is named "y"; "w " is "w" followed by a blank.
EMBEDDED_KDL_DATA ==
    << [code |-> <<66>>, display |-> <<120>>],       \* B: "x"
       [code |-> <<65>>, display |-> <<119>>],       \* A: "w"
       [code |-> <<67>>, display |-> <<121, 32>>],   \* C: "y "
       [code |-> <<68>>, display |-> <<120>>],       \* D: "x"
       [code |-> <<69>>, display |-> <<119, 32>>] >> \* E: "w "

\* What load_kdl_data can return: the file's list, or the fallback.
Catalogs == {FALLBACK_KDL_DATA, EMBEDDED_KDL_DATA}

\* --------------------------------------------------------- usage file

FileAbsent == [kind |-> "absent", data |-> JInt(0)]
FileGarbage == [kind |-> "garbage", data |-> JInt(0)]
FileJson(v) == [kind |-> "json", data |-> v]

\* Contents of kdl_usage.json at start.
UsageFiles ==
    { FileAbsent,
      FileGarbage,                                         \* not JSON
      FileJson(JList),                                     \* []
      FileJson(JInt(7)),                                   \* 7
      FileJson(JDict(A01 :> JStr)),                        \* {"A01": "x"}
      FileJson(JDict(<<>>)),                               \* {}
      FileJson(JDict((C34 :> JInt(3)) @@ (A01 :> JInt(1)))),
      FileJson(JDict((A01 :> JInt(1)) @@ (A02 :> JInt(2)) @@ (B20 :> JInt(3))
                     @@ (C34 :> JInt(4)) @@ (E11 :> JInt(5)) @@ (I10 :> JInt(6)))),
      FileJson(JDict((<<65>> :> JInt(1)) @@ (<<66>> :> JInt(1)))) }  \* {"A": 1, "B": 1}

\* load_usage(): the file's JSON value whatever its shape; {} when the file is
\* absent or json.load raises.
load_usage(file) == IF file.kind = "json" THEN file.data ELSE JDict(<<>>)

\* save_usage(data): json.dump of the dict; what a later json.load reads back.
\* The write is taken to succeed (an exception of open or json.dump is swallowed
\* by the function and is not modelled).
save_usage(data) == FileJson(data)

\* ------------------------------------------------------ update_dropdown

\* The keys of valid_usage: the catalog's codes in catalog order, each once.
RECURSIVE valid_codes(_, _)
valid_codes(KDL, i) ==
    IF i = 0 THEN <<>>
    ELSE LET rest == valid_codes(KDL, i - 1)
         IN  IF InList(KDL[i].code, rest) THEN rest ELSE Append(rest, KDL[i].code)

\* valid_usage.items(): (code, usage_data.get(code, 0)) pairs.
valid_usage(KDL, usage) ==
    LET codes == valid_codes(KDL, Len(KDL))
    IN  [i \in 1..Len(codes) |-> <<codes[i], DictGet(usage, codes[i])>>]

\* update_dropdown raises: usage_data has no .get (AttributeError), or the sort key
\* -kv[1] negates a value that is no number (TypeError).
update_dropdown_raises(KDL, usage) ==
    \/ usage.t # "dict"
    \/ \E i \in 1..Len(KDL) : DictGet(usage, KDL[i].code).t # "int"

\* key=lambda kv: (-kv[1], kv[0]). Tuples compare like strings: the first
\* differing component decides, so the key is -count followed by the code.
usage_key(kv) == <<-kv[2].n>> \o kv[1]

\* key=lambda x: x["display"]
display_key(e) == e.display

\* sorted(items, key=...), keys[i] being the key of items[i]. The sort is stable:
\* an item comes after the items with a smaller key and after the earlier items
\* with an equal key.
sorted(items, keys) ==
    LET n == Len(items)
        place(i) == 1 + Cardinality({j \in 1..n :
                            \/ StrLess(keys[j], keys[i])
                            \/ (keys[j] = keys[i] /\ j < i)})
    IN  [p \in 1..n |-> items[CHOOSE i \in 1..n : place(i) = p]]

\* The number of favourites kept.
TOP == 5

favorites_sorted(KDL, usage) ==
    LET items == valid_usage(KDL, usage)
    IN  Take(sorted(items, [i \in 1..Len(items) |-> usage_key(items[i])]), TOP)

favorite_codes(KDL, usage) ==
    LET fs == favorites_sorted(KDL, usage)
        pos == SelectSeq(fs, LAMBDA kv : DictGet(usage, kv[1]).n > 0)
    IN  [i \in 1..Len(pos) |-> pos[i][1]]

favorite_displays(KDL, codes) ==
    LET es == SelectSeq(KDL, LAMBDA e : InList(e.code, codes))
    IN  [i \in 1..Len(es) |-> es[i].display]

\* The remainder without the filter on the favourite displays.
remaining_displays_unfiltered(KDL, favs) ==
    LET by_display == sorted(KDL, [i \in 1..Len(KDL) |-> display_key(KDL[i])])
    IN  [i \in 1..Len(by_display) |-> by_display[i].display]

remaining_displays(KDL, favs) ==
    LET by_display == sorted(KDL, [i \in 1..Len(KDL) |-> display_key(KDL[i])])
        es == SelectSeq(by_display, LAMBDA e : ~InList(e.display, favs))
    IN  [i \in 1..Len(es) |-> es[i].display]

\* The separator added whether or not there are favourites.
dropdown_values_always_separator(favs, rest) == favs \o <<SEPARATOR>> \o rest

dropdown_values(favs, rest) ==
    (IF favs # <<>> THEN favs \o <<SEPARATOR>> ELSE <<>>) \o rest

update_dropdown(KDL, usage) ==
    LET favs == favorite_displays(KDL, favorite_codes(KDL, usage))
    IN  dropdown_values(favs, remaining_displays(KDL, favs))

get_kdl_code(KDL, display) ==
    LET hits == {i \in 1..Len(KDL) : KDL[i].display = display}
    IN  IF hits = {} THEN [found |-> FALSE, code |-> <<>>]
        ELSE [found |-> TRUE, code |-> KDL[Min(hits)].code]

\* ----------------------------------------------------------- generate_qr

\* "{sys:GUN_CID,cid:", ",formid:" and "}"
QR_HEAD == <<123, 115, 121, 115, 58, 71, 85, 78, 95, 67, 73, 68, 44, 99, 105, 100, 58>>
QR_MID == <<44, 102, 111, 114, 109, 105, 100, 58>>
QR_TAIL == <<125>>

\* The two fields in each other's place.
qr_data_swapped(fallnummer, code) ==
    QR_HEAD \o code \o QR_MID \o fallnummer \o QR_TAIL

\* f"{{sys:GUN_CID,cid:{fallnummer},formid:{code}}}"
qr_data(fallnummer, code) == QR_HEAD \o fallnummer \o QR_MID \o code \o QR_TAIL

\* The first check of generate_qr passes: a display is selected and is not "---".
display_chosen(display) == ~(display = <<>> \/ display = SEPARATOR)

\* The second check without its test of the case number.
inputs_given_code_only(fallnummer, code) == code.found /\ code.code # <<>>

\* The second check passes: not (not fallnummer or not code). None and "" are falsy.
inputs_given(fallnummer, code) == ~(fallnummer = <<>> \/ ~code.found \/ code.code = <<>>)

\* usage_data[code] = usage_data.get(code, 0) + 1. The value read is an int: a value
\* of another type under a catalog code stops update_dropdown in __init__.
count_use(usage, code) == DictSet(usage, code, JInt(DictGet(usage, code).n + 1))

NoImage == [made |-> FALSE, data |-> <<>>]

\* qrcode.make(qr_data): the image, held as the data it encodes.
qrcode_make(data) == [made |-> TRUE, data |-> data]

NoRun == [code |-> <<>>, n |-> 0, base |-> JDict(<<>>)]

\* -------------------------------------------------------------- print_qr

\* CM_TO_IN = 0.3937007874, as 0.39370 and 0.0000007874.
CM_TO_IN_HI == 39370
CM_TO_IN_LO == 7874

\* cm * CM_TO_IN * dpi in millionths, rounded down, for cm given in tenths. The
\* product is tenths * dpi * 3937007874 / 10^11, computed in two parts that fit
\* 32 bits. The exact product is a whole number only for dpi a multiple of 10^9,
\* and is otherwise at least 10^-9 away from one, far more than the error of the
\* two float multiplications, so int() of the float is the floor of the exact one.
Millionths(tenths, dpi) ==
    tenths * dpi * CM_TO_IN_HI + (tenths * dpi * CM_TO_IN_LO) \div 100000

\* round(x) in place of int(x).
int_px_rounded(tenths, dpi) == (Millionths(tenths, dpi) + 500000) \div 1000000

\* int(x): the fraction is dropped.
int_px(tenths, dpi) == Millionths(tenths, dpi) \div 1000000

\* qr_side_px = int(2.5 * CM_TO_IN * min(dpi_x, dpi_y))
qr_side_px(dpi_x, dpi_y) == int_px(25, IF dpi_x < dpi_y THEN dpi_x ELSE dpi_y)

\* label_width_px = int(4 * CM_TO_IN * dpi_x)
label_width_px(dpi_x) == int_px(40, dpi_x)

\* The room under the QR block for the date line, and the gap before the text.
DATE_LINE_PX == 20
TEXT_GAP_PX == 10

NoPage ==
    [submitted |-> FALSE, qr |-> <<>>, qr_side_px |-> 0, label_width_px |-> 0,
     label_height_px |-> 0, text_x |-> 0, fallnummer |-> <<>>, kdl_display |-> <<>>,
     dpi_x |-> 0, dpi_y |-> 0]

\* The label print_qr draws and sends: the QR block at (0, 0), the two text lines
\* from the widgets as they are now, the date line under the block.
label(image, fallnummer, kdl_display, dpi_x, dpi_y) ==
    [submitted |-> TRUE,
     qr |-> image.data,
     qr_side_px |-> qr_side_px(dpi_x, dpi_y),
     label_width_px |-> label_width_px(dpi_x),
     label_height_px |-> qr_side_px(dpi_x, dpi_y) + DATE_LINE_PX,
     text_x |-> qr_side_px(dpi_x, dpi_y) + TEXT_GAP_PX,
     fallnummer |-> fallnummer,
     kdl_display |-> kdl_display,
     dpi_x |-> dpi_x,
     dpi_y |-> dpi_y]

\* LOGPIXELSX and LOGPIXELSY of the printers tried.
Resolutions == {<<300, 300>>, <<600, 300>>, <<203, 600>>}

\* How a print attempt can go: the dialog is cancelled, the print subsystem raises,
\* or the chosen printer takes the page at its resolution.
PrintOutcomes ==
    {[kind |-> "cancel", dpi |-> <<0, 0>>], [kind |-> "error", dpi |-> <<0, 0>>]}
    \cup {[kind |-> "ok", dpi |-> r] : r \in Resolutions}

\* ----------------------------------------------------------- user input

\* fallnummer_param: none, or " 7 " (--fall " 7 ").
FallParams == {<<>>, <<32, 55, 32>>}

\* What the user types into the entry: " " and "8".
Entries == {<<32>>, <<56>>}

\* The catalog codes whose displays the user picks.
PickCodes == {A01, C34, <<65>>, <<66>>, <<67>>, <<68>>, <<69>>}

Pickable(KDL, d) ==
    \/ d = SEPARATOR
    \/ \E i \in 1..Len(KDL) : KDL[i].display = d /\ KDL[i].code \in PickCodes

\* ------------------------------------------------------------- the program

Init ==
    /\ pc = "start"
    /\ KDL_DATA \in Catalogs
    /\ USAGE_FILE \in UsageFiles
    /\ usage_data = JDict(<<>>)
    /\ fallnummer_entry = <<>>
    /\ kdl_var = <<>>
    /\ kdl_dropdown = <<>>
    /\ qr_pil = NoImage
    /\ event = "none"
    /\ messagebox = ""
    /\ page = NoPage
    /\ generated = 0
    /\ run = NoRun

\* usage_data = load_usage(), then KDLQRApp.__init__: the entry is prefilled and
\* update_dropdown fills the dropdown; an exception there ends the process.
Startup ==
    /\ pc = "start"
    /\ \E param \in FallParams :
         LET usage == load_usage(USAGE_FILE)
         IN  /\ usage_data' = usage
             /\ IF update_dropdown_raises(KDL_DATA, usage)
                THEN /\ pc' = "crashed"
                     /\ event' = "traceback"
                     /\ UNCHANGED <<fallnummer_entry, kdl_dropdown>>
                ELSE /\ pc' = "running"
                     /\ event' = "window"
                     /\ fallnummer_entry' = param
                     /\ kdl_dropdown' = update_dropdown(KDL_DATA, usage)
    /\ UNCHANGED <<KDL_DATA, USAGE_FILE, kdl_var, qr_pil, messagebox, page,
                   generated, run>>

\* The user edits the Fallnummer entry.
TypeFallnummer ==
    /\ pc = "running"
    /\ \E text \in Entries : fallnummer_entry' = text
    /\ event' = "input"
    /\ messagebox' = ""
    /\ page' = NoPage
    /\ UNCHANGED <<pc, KDL_DATA, USAGE_FILE, usage_data, kdl_var, kdl_dropdown,
                   qr_pil, generated, run>>

\* The user picks an entry of the read-only combobox.
SelectKdl ==
    /\ pc = "running"
    /\ \E i \in 1..Len(kdl_dropdown) :
         /\ Pickable(KDL_DATA, kdl_dropdown[i])
         /\ kdl_var' = kdl_dropdown[i]
    /\ event' = "input"
    /\ messagebox' = ""
    /\ page' = NoPage
    /\ UNCHANGED <<pc, KDL_DATA, USAGE_FILE, usage_data, fallnummer_entry,
                   kdl_dropdown, qr_pil, generated, run>>

generate_qr ==
    /\ pc = "running"
    /\ page' = NoPage
    /\ LET fallnummer == strip(fallnummer_entry)
           display == strip(kdl_var)
           code == get_kdl_code(KDL_DATA, display)
       IN  IF ~display_chosen(display)
           THEN /\ event' = "generate_error"
                /\ messagebox' = "Bitte einen KDL-Eintrag waehlen."
                /\ UNCHANGED <<qr_pil, usage_data, USAGE_FILE, kdl_dropdown,
                               generated, run>>
           ELSE IF ~inputs_given(fallnummer, code)
           THEN /\ event' = "generate_error"
                /\ messagebox' = "Bitte Fallnummer und KDL auswaehlen."
                /\ UNCHANGED <<qr_pil, usage_data, USAGE_FILE, kdl_dropdown,
                               generated, run>>
           ELSE LET usage == count_use(usage_data, code.code)
                IN  /\ generated < MaxGenerated
                    /\ event' = "generated"
                    /\ messagebox' = ""
                    /\ qr_pil' = qrcode_make(qr_data(fallnummer, code.code))
                    /\ usage_data' = usage
                    /\ USAGE_FILE' = save_usage(usage)
                    /\ kdl_dropdown' = update_dropdown(KDL_DATA, usage)
                    /\ generated' = generated + 1
                    /\ run' = IF run.n > 0 /\ run.code = code.code
                              THEN [run EXCEPT !.n = run.n + 1]
                              ELSE [code |-> code.code, n |-> 1, base |-> usage_data]
    /\ UNCHANGED <<pc, KDL_DATA, fallnummer_entry, kdl_var>>

print_qr ==
    /\ pc = "running"
    /\ IF ~qr_pil.made
       THEN /\ event' = "print_refused"
            /\ messagebox' = "Bitte zuerst einen QR-Code generieren."
            /\ page' = NoPage
       ELSE \E out \in PrintOutcomes :
              /\ event' = IF out.kind = "ok" THEN "printed"
                          ELSE IF out.kind = "cancel" THEN "print_cancelled"
                          ELSE "print_error"
              /\ messagebox' = IF out.kind = "error" THEN "Druckfehler" ELSE ""
              /\ page' = IF out.kind = "ok"
                         THEN label(qr_pil, strip(fallnummer_entry), strip(kdl_var),
                                    out.dpi[1], out.dpi[2])
                         ELSE NoPage
    /\ UNCHANGED <<pc, KDL_DATA, USAGE_FILE, usage_data, fallnummer_entry, kdl_var,
                   kdl_dropdown, qr_pil, generated, run>>

\* Without "global usage_data" the assignment binds a local name and the global
\* keeps its counters.
reset_usage_data_local == usage_data

\* global usage_data; usage_data = {}: the global after the assignment.
reset_usage_data == JDict(<<>>)

reset_favorites ==
    /\ pc = "running"
    /\ usage_data' = reset_usage_data
    /\ USAGE_FILE' = save_usage(JDict(<<>>))
    /\ kdl_dropdown' = update_dropdown(KDL_DATA, reset_usage_data)
    /\ event' = "reset"
    /\ messagebox' = "Favoriten wurden zurueckgesetzt."
    /\ page' = NoPage
    /\ run' = NoRun
    /\ UNCHANGED <<pc, KDL_DATA, fallnummer_entry, kdl_var, qr_pil, generated>>

Next ==
    \/ Startup
    \/ TypeFallnummer
    \/ SelectKdl
    \/ generate_qr
    \/ print_qr
    \/ reset_favorites

Spec == Init /\ [][Next]_vars

\* ------------------------------------------------------------ properties

\* The display of the first catalog entry with the code.
DisplayOf(KDL, code) ==
    KDL[Min({i \in 1..Len(KDL) : KDL[i].code = code})].display

\* The usage count of a code, 0 when it has none.
CountOf(usage, code) == DictGet(usage, code).n

\* The positions of the separator in a dropdown list.
SeparatorAt(values) == {i \in 1..Len(values) : values[i] = SEPARATOR}

\* values is the catalog's displays, each as often as the catalog has it, in
\* ascending order, and nothing else.
IsAlphabeticalCatalog(values, KDL) ==
    /\ Len(values) = Len(KDL)
    /\ \A i \in 1..Len(values) : \A j \in 1..Len(values) :
         i < j => ~StrLess(values[j], values[i])
    /\ \A k \in 1..Len(KDL) :
         Cardinality({i \in 1..Len(values) : values[i] = KDL[k].display})
           = Cardinality({i \in 1..Len(KDL) : KDL[i].display = KDL[k].display})

\* t is s without its leading and trailing whitespace.
IsTrimOf(t, s) ==
    \E i \in 1..(Len(s) + 1) : \E j \in 0..Len(s) :
        /\ t = SubSeq(s, i, j)
        /\ \A k \in 1..Len(s) : (k < i \/ k > j) => s[k] \in WHITESPACE
        /\ t # <<>> => (t[1] \notin WHITESPACE /\ t[Len(t)] \notin WHITESPACE)

\* C1: the favourites at the head of the dropdown are the catalog codes sorted by
\* count descending then code ascending, cut to the first 5, those with a count
\* above 0, as their displays in that ranked order.
C1_FavoritesInRankedOrder ==
    pc = "running" =>
        LET codes == favorite_codes(KDL_DATA, usage_data)
            ranked == [i \in 1..Len(codes) |-> DisplayOf(KDL_DATA, codes[i])]
        IN  /\ Len(kdl_dropdown) >= Len(ranked)
            /\ SubSeq(kdl_dropdown, 1, Len(ranked)) = ranked

\* C2: after two successful generate_qr calls in a row for one code, that code's
\* counter is 2 higher and no other counter has changed, and if the code's count
\* is now the unique maximum among the catalog codes its display heads the dropdown.
C2_TwoGenerationsRankFirst ==
    (event = "generated" /\ run.n = 2) =>
        /\ CountOf(usage_data, run.code) = CountOf(run.base, run.code) + 2
        /\ \A k \in (DOMAIN usage_data.m \cup DOMAIN run.base.m) \ {run.code} :
             DictGet(usage_data, k) = DictGet(run.base, k)
        /\ (\A i \in 1..Len(KDL_DATA) :
              KDL_DATA[i].code # run.code =>
                CountOf(usage_data, KDL_DATA[i].code) < CountOf(usage_data, run.code))
           => kdl_dropdown[1] = DisplayOf(KDL_DATA, run.code)

C5_InvalidInput ==
    \/ \A i \in 1..Len(fallnummer_entry) : fallnummer_entry[i] \in WHITESPACE
    \/ kdl_var = <<>>
    \/ kdl_var = SEPARATOR
    \/ \A t \in {KDL_DATA[i].display : i \in 1..Len(KDL_DATA)} : ~IsTrimOf(t, kdl_var)

\* C5: a generate_qr call on invalid input reports an error and leaves the counters
\* in memory and on disk, the dropdown and the QR image as they were.
C5_InvalidInputChangesNothing ==
    [][ ((event' = "generated" \/ event' = "generate_error") /\ C5_InvalidInput)
          => /\ event' = "generate_error"
             /\ messagebox' # ""
             /\ UNCHANGED <<usage_data, USAGE_FILE, kdl_dropdown, qr_pil>> ]_vars

C5_Witness ==
    /\ event = "generate_error"
    /\ qr_pil.made
    /\ SeparatorAt(kdl_dropdown) # {}
    /\ kdl_var # <<>>
    /\ kdl_var # SEPARATOR

\* The smaller of the page's two resolutions.
C6_MinDpi == IF page.dpi_x < page.dpi_y THEN page.dpi_x ELSE page.dpi_y

\* C6 as claimed: the printed QR side and label width are 2.5 cm and 4 cm in
\* pixels rounded to the nearest integer.
C6_RoundedToNearest ==
    page.submitted =>
        /\ page.qr_side_px * 1000000 - 500000 <= Millionths(25, C6_MinDpi)
        /\ Millionths(25, C6_MinDpi) < page.qr_side_px * 1000000 + 500000
        /\ page.label_width_px * 1000000 - 500000 <= Millionths(40, page.dpi_x)
        /\ Millionths(40, page.dpi_x) < page.label_width_px * 1000000 + 500000

\* C6 amended: the printed QR side and label width are 2.5 cm and 4 cm in pixels
\* with the fraction dropped; at 300 x 300 dpi they are 295 and 472.
C6_Truncated ==
    page.submitted =>
        /\ page.qr_side_px * 1000000 <= Millionths(25, C6_MinDpi)
        /\ Millionths(25, C6_MinDpi) < (page.qr_side_px + 1) * 1000000
        /\ page.label_width_px * 1000000 <= Millionths(40, page.dpi_x)
        /\ Millionths(40, page.dpi_x) < (page.label_width_px + 1) * 1000000
        /\ (page.dpi_x = 300 /\ page.dpi_y = 300) =>
             (page.qr_side_px = 295 /\ page.label_width_px = 472)

C6_Witness ==
    /\ page.submitted
    /\ page.dpi_x = 600
    /\ page.dpi_y = 300
    /\ page.qr_side_px = 295
    /\ page.label_width_px = 944

\* C7 as claimed: a successful generate_qr encodes the template with the entered
\* case number and the code of the selected display, both exactly as they are.
C7_PayloadVerbatim ==
    event = "generated" =>
        \E i \in 1..Len(KDL_DATA) :
            /\ KDL_DATA[i].display = kdl_var
            /\ qr_pil.data = QR_HEAD \o fallnummer_entry \o QR_MID
                               \o KDL_DATA[i].code \o QR_TAIL

\* C7 amended: a successful generate_qr encodes the template with the entered case
\* number trimmed of surrounding whitespace and the code of the first catalog entry
\* whose display is the selection trimmed likewise.
C7_PayloadTrimmed ==
    event = "generated" =>
        \E i \in 1..Len(KDL_DATA) :
            /\ IsTrimOf(KDL_DATA[i].display, kdl_var)
            /\ \A j \in 1..(i - 1) : KDL_DATA[j].display # KDL_DATA[i].display
            /\ \E a \in 1..(Len(fallnummer_entry) + 1) : \E b \in 0..Len(fallnummer_entry) :
                 /\ IsTrimOf(SubSeq(fallnummer_entry, a, b), fallnummer_entry)
                 /\ qr_pil.data = QR_HEAD \o SubSeq(fallnummer_entry, a, b) \o QR_MID
                                    \o KDL_DATA[i].code \o QR_TAIL

C7_Witness ==
    /\ event = "generated"
    /\ fallnummer_entry = <<32, 55, 32>>
    /\ qr_pil.data = QR_HEAD \o <<55>> \o QR_MID \o KDL_DATA[1].code \o QR_TAIL

\* A usage file that is not a JSON object of codes to non-negative integers.
C8_NotACounterFile(file) ==
    \/ file.kind # "json"
    \/ file.data.t # "dict"
    \/ \E k \in DOMAIN file.data.m : file.data.m[k].t # "int" \/ file.data.m[k].n < 0

\* C8: with a usage file that is missing, unreadable or of another shape, startup
\* completes with empty counters and the alphabetical dropdown without separator.
C8_BadUsageFileIsEmpty ==
    ((event = "window" \/ event = "traceback") /\ C8_NotACounterFile(USAGE_FILE)) =>
        /\ pc = "running"
        /\ usage_data = JDict(<<>>)
        /\ IsAlphabeticalCatalog(kdl_dropdown, KDL_DATA)
        /\ SeparatorAt(kdl_dropdown) = {}

\* C9: the dropdown's entries after the separator, or all of them when there is
\* none, ascend by display and none of them is among the entries before it.
C9_RemainderSortedAndDisjoint ==
    pc = "running" =>
        LET first == IF SeparatorAt(kdl_dropdown) = {} THEN 1
                     ELSE Min(SeparatorAt(kdl_dropdown)) + 1
            rest == first..Len(kdl_dropdown)
        IN  /\ \A i \in rest : \A j \in rest :
                 i < j => ~StrLess(kdl_dropdown[j], kdl_dropdown[i])
            /\ \A i \in rest : \A f \in 1..(first - 2) :
                 kdl_dropdown[i] # kdl_dropdown[f]

C9_Witness ==
    /\ pc = "running"
    /\ generated > 0
    /\ SeparatorAt(kdl_dropdown) # {}
    /\ Len(kdl_dropdown) >= Min(SeparatorAt(kdl_dropdown)) + 2
    /\ \E i \in 1..Len(KDL_DATA) : \E j \in 1..Len(KDL_DATA) :
         /\ i # j
         /\ KDL_DATA[i].display = KDL_DATA[j].display
         /\ KDL_DATA[i].display = kdl_dropdown[1]

\* C10: the case number and display printed beside the QR block are the ones the
\* printed QR image encodes.
C10_LabelTextMatchesQr ==
    page.submitted =>
        \E i \in 1..Len(KDL_DATA) :
            /\ KDL_DATA[i].display = page.kdl_display
            /\ page.qr = QR_HEAD \o page.fallnummer \o QR_MID
                           \o KDL_DATA[i].code \o QR_TAIL

====
